---- MODULE Spec2Model ----
(***************************************************************************)
(* Model of the pipeline scheduler of dog-places:                          *)
(*   src/services/scheduling/UpdateScheduler.ts                            *)
(*   src/services/scheduling/ScheduledDataService.ts                       *)
(*   src/services/scheduling/DataVersionService.ts (update strategies)     *)
(*   src/config/SchedulingConfig.ts                                        *)
(*                                                                         *)
(* Time is counted in whole seconds since 1 January 00:00 UTC of model     *)
(* year 0 (a Wednesday, as 2025-01-01); years have 365 days and the local  *)
(* zone has a fixed offset (no daylight saving).  Source acquisition and   *)
(* persistence are external adapters: an executePipeline call ends with a  *)
(* nondeterministic outcome (executeWithFallback resolves or rejects).     *)
(***************************************************************************)
EXTENDS Integers, Sequences, FiniteSets, Bags, TLC

VARIABLES
    environment,      \* process.env.NODE_ENV, read at construction
    enabledPipelines, \* SchedulingConfig.enabledPipelines
    tzOffset,         \* local time = UTC + tzOffset seconds
    now,              \* Date.now(), in seconds (in milliseconds where a specification says so)
    isRunning,        \* UpdateScheduler.isRunning
    obj,              \* pipeline objects: obj[id][gen]; the service map holds the last one
    timers,           \* UpdateScheduler.timers: id -> timer handle (0: no entry)
    live,             \* timers armed with setTimeout, not yet fired nor cleared
    nextHandle,       \* per pipeline id, the next handle setTimeout returns
    runs,             \* bag of async calls in flight (timer-driven runs, executeNow calls)
    ops,              \* start(), stop() and executePipeline calls and free clock steps so far
    last,             \* observation of the last operation (not the clock)
    pipe,             \* the pipeline handed to executeWithFallback: its sources and config
    fb,               \* the locals and the effects of one executeWithFallback call
    versions,         \* DataVersionService.versions, in insertion order
    input,            \* a dataset as a source adapter returns it, and its data type
    out               \* what validateData, deduplicateData and createVersion made of input

\* The state of the data path: one executeWithFallback call, the version store
\* and the functions over datasets
dataVars == <<pipe, fb, versions, input, out>>

vars == <<environment, enabledPipelines, tzOffset, now, isRunning, obj,
          timers, live, nextHandle, runs, ops, last, dataVars>>

----------------------------------------------------------------------------
(* Bounds of the model *)

\* start(), stop() and executePipeline calls and free clock steps explored in one behaviour
MaxOps == 5

\* Records in a dataset handed to validateData, deduplicateData or
\* calculateQualityMetrics; a dataset handed to createVersion has one less
MaxLen == 3

\* createVersion calls in one behaviour of the version store
MaxVersions == 2

\* Acquisition attempts recorded against one source
MaxAttempts == 3

\* Days the clock moves while the reliability of a source is followed
MaxDays == 3

----------------------------------------------------------------------------
(* Calendar *)

Hour == 60 * 60
Day == 24 * Hour
YearLen == 365 * Day
NULL == 0 - 1

Min(a, b) == IF a <= b THEN a ELSE b
Max(a, b) == IF a >= b THEN a ELSE b

\* Date#getFullYear() of the local time
GetFullYear(t, tz) == (t + tz) \div YearLen

\* Date#getDay() of the local time: 0 is Sunday; day 0 of the epoch is a Wednesday
GetDay(t, tz) == (((t + tz) \div Day) + 3) % 7

\* new Date(`${year}-01-15T02:00:00.000Z`) and new Date(`${year}-07-15T02:00:00.000Z`)
UpdateDates(year) ==
    << year * YearLen + 14 * Day + 2 * Hour,
       year * YearLen + (31 + 28 + 31 + 30 + 31 + 30 + 14) * Day + 2 * Hour >>

\* BiannualUpdateStrategy.getNextUpdateTime: the first update date of the
\* current (local) year that is after now, otherwise 15 January of next year
BiannualGetNextUpdateTime(t, tz) ==
    LET currentYear == GetFullYear(t, tz)
        dates == UpdateDates(currentYear)
    IN  IF t < dates[1] THEN dates[1]
        ELSE IF t < dates[2] THEN dates[2]
        ELSE UpdateDates(currentYear + 1)[1]

\* WeeklyUpdateStrategy.getNextUpdateTime without its roll-forward and with a
\* Sunday counted as zero days away
WeeklyNoRollForward(t, tz) ==
    LET localMidnight == ((t + tz) \div Day) * Day
        daysUntilSunday == (7 - GetDay(t, tz)) % 7
    IN  (localMidnight + daysUntilSunday * Day + 2 * Hour) - tz

\* WeeklyUpdateStrategy.getNextUpdateTime: Sunday 02:00 local; a Sunday counts
\* as seven days away; rolls forward a week when the instant is not after now
WeeklyGetNextUpdateTime(t, tz) ==
    LET localMidnight == ((t + tz) \div Day) * Day
        daysUntilSunday == (7 - GetDay(t, tz)) % 7
        addDays == IF daysUntilSunday = 0 THEN 7 ELSE daysUntilSunday
        nextSunday == (localMidnight + addDays * Day + 2 * Hour) - tz
    IN  IF nextSunday <= t THEN nextSunday + 7 * Day ELSE nextSunday

\* UpdateStrategyFactory.createStrategy: any other frequency throws
SupportedFrequency(frequency) == frequency \in {"biannual", "weekly"}

\* ScheduledDataService.calculateNextUpdate (the strategies ignore lastUpdate)
CalculateNextUpdate(frequency, t, tz) ==
    IF frequency = "biannual" THEN BiannualGetNextUpdateTime(t, tz)
    ELSE WeeklyGetNextUpdateTime(t, tz)

----------------------------------------------------------------------------
(* Configuration *)

Environments == {"development", "staging", "production"}
DataTypes == <<"addresses", "dogPlaces">>
PipelineIds == {"addresses_pipeline", "dogPlaces_pipeline"}

\* initializePipelines: id = `${type}_pipeline`
PipelineId(type) == IF type = "addresses" THEN "addresses_pipeline" ELSE "dogPlaces_pipeline"
TypeOf(id) == IF id = "addresses_pipeline" THEN "addresses" ELSE "dogPlaces"

\* UpdateStrategyManager.getUpdateStrategy: frequency per environment
GetUpdateStrategy(env, type) ==
    IF env = "development"
    THEN (IF type = "addresses" THEN "weekly" ELSE "daily")
    ELSE IF env = "staging"
    THEN (IF type = "addresses" THEN "monthly" ELSE "weekly")
    ELSE (IF type = "addresses" THEN "biannual" ELSE "weekly")

\* UpdateScheduler.initializePipelines: config.maxRetries of each pipeline
MaxRetries(id) == IF id = "addresses_pipeline" THEN 3 ELSE 5

----------------------------------------------------------------------------
(* State after construction *)

\* Clock values at construction: Saturday 11 Jan 23:30 UTC (before the weekly
\* Sunday 02:00), Tuesday 14 Jan 23:30 (before the biannual 15 Jan 02:00 UTC)
\* and 31 Dec 23:30 (the local year may already be the next one)
StartTimes ==
    { 10 * Day + 23 * Hour + 30 * 60, 13 * Day + 23 * Hour + 30 * 60,
      364 * Day + 23 * Hour + 30 * 60 }

\* The time that passes in one free step of the clock
ClockStep == 3 * Hour

TzOffsets == {0, Hour}

\* getEnabledPipelines: ENABLED_PIPELINES filtered to the two known types
EnabledChoices == { {"addresses", "dogPlaces"} }

\* The ids an executeNow caller may pass
CallIds == PipelineIds

NoLast ==
    [ op |-> "none", id |-> "", gen |-> 0, kind |-> "", result |-> "", caller |-> "",
      events |-> << >>, handle |-> 0, stale |-> FALSE, armed |-> NULL, delayMs |-> 0, attempt |-> 0,
      calls |-> 0, rescheduled |-> 0, cancelled |-> {}, at |-> NULL ]

\* No pipeline handed to executeWithFallback, no call made, nothing computed
NoPipe == [type |-> "", sources |-> << >>, enableFallback |-> FALSE]
NoCall == [pc |-> "none"]
NoInput == [type |-> "", data |-> << >>]
NoOut == [op |-> "none"]

Init ==
    /\ environment \in Environments
    /\ enabledPipelines \in EnabledChoices
    /\ tzOffset \in TzOffsets
    /\ now \in StartTimes
    /\ isRunning = FALSE
    /\ obj = [id \in PipelineIds |-> << >>]
    /\ timers = [id \in PipelineIds |-> 0]
    /\ live = {}
    /\ nextHandle = [id \in PipelineIds |-> 1]
    /\ runs = EmptyBag
    /\ ops = 0
    /\ last = NoLast
    /\ pipe = NoPipe
    /\ fb = NoCall
    /\ versions = << >>
    /\ input = NoInput
    /\ out = NoOut

----------------------------------------------------------------------------
(* ScheduledDataService: the pipeline map *)

\* pipelines.get(id): the generation of the object the map holds, 0 when absent
Cur(o, id) == IF id \in PipelineIds THEN Len(o[id]) ELSE 0

\* getAllPipelines(), in insertion order
AllPipelines(o) == SelectSeq(<<"addresses_pipeline", "dogPlaces_pipeline">>, LAMBDA id : Len(o[id]) > 0)

\* initializePipelines: the pipeline record built for one configuration
NewPipeline(frequency, t, tz) ==
    [ frequency |-> frequency,
      lastUpdate |-> NULL,
      nextUpdate |-> CalculateNextUpdate(frequency, t, tz),
      status |-> "idle",
      totalRuns |-> 0, successfulRuns |-> 0, failedRuns |-> 0 ]

\* initializePipelines over the enabled types, in order: each pipeline is put
\* in the map, and the first unsupported frequency throws out of the loop.
\* Returns the map and whether it threw.
RECURSIVE InitializePipelines(_, _, _, _, _, _)
InitializePipelines(o, types, enabled, env, t, tz) ==
    IF types = << >> THEN [obj |-> o, threw |-> FALSE]
    ELSE LET type == Head(types)
             frequency == GetUpdateStrategy(env, type)
         IN  IF type \notin enabled
             THEN InitializePipelines(o, Tail(types), enabled, env, t, tz)
             ELSE IF ~SupportedFrequency(frequency)
             THEN [obj |-> o, threw |-> TRUE]
             ELSE InitializePipelines(
                      [o EXCEPT ![PipelineId(type)] = Append(@, NewPipeline(frequency, t, tz))],
                      Tail(types), enabled, env, t, tz)

----------------------------------------------------------------------------
(* UpdateScheduler: timers *)

\* The largest delay of a Node.js timer, 2^31 - 1 ms, in whole seconds: a
\* longer delay is replaced by 1 ms
TimeoutMax == 2147483647 \div 1000

\* setTimeout(callback, delay): the instant the timer becomes due
TimerDeadline(t, delay) == IF delay > TimeoutMax THEN t ELSE t + delay

\* clearTimeout(handle)
ClearTimeout(lv, id, handle) == { tm \in lv : ~(tm.id = id /\ tm.h = handle) }

\* schedulePipeline without clearing the timer the map holds for the pipeline
ScheduleNoClear(ts, id, gen, o, t) ==
    LET delay == Max(0, o[id][gen].nextUpdate - t)
        timer == [h |-> ts.nextHandle[id], id |-> id, gen |-> gen,
                  deadline |-> TimerDeadline(t, delay), stale |-> FALSE]
    IN  [ timers |-> [ts.timers EXCEPT ![id] = ts.nextHandle[id]],
          live |-> ts.live \cup {timer},
          nextHandle |-> [ts.nextHandle EXCEPT ![id] = @ + 1] ]

\* schedulePipeline(pipeline) for the pipeline object obj[id][gen]: clears the
\* timer the map holds, arms a timer for max(0, nextUpdate - now) and stores it
SchedulePipeline(ts, id, gen, o, t) ==
    LET existingTimer == ts.timers[id]
        cleared == IF existingTimer # 0 THEN ClearTimeout(ts.live, id, existingTimer) ELSE ts.live
        delay == Max(0, o[id][gen].nextUpdate - t)
        timer == [h |-> ts.nextHandle[id], id |-> id, gen |-> gen,
                  deadline |-> TimerDeadline(t, delay), stale |-> FALSE]
    IN  [ timers |-> [ts.timers EXCEPT ![id] = ts.nextHandle[id]],
          live |-> cleared \cup {timer},
          nextHandle |-> [ts.nextHandle EXCEPT ![id] = @ + 1] ]

\* reschedulePipeline(pipeline): schedulePipeline on the same object
ReschedulePipeline(ts, id, gen, o, t) == SchedulePipeline(ts, id, gen, o, t)

\* scheduleAllPipelines: schedulePipeline on every pipeline of the map
RECURSIVE ScheduleAllPipelines(_, _, _, _)
ScheduleAllPipelines(ts, ids, o, t) ==
    IF ids = << >> THEN ts
    ELSE ScheduleAllPipelines(SchedulePipeline(ts, Head(ids), Cur(o, Head(ids)), o, t),
                              Tail(ids), o, t)

TimerState == [timers |-> timers, live |-> live, nextHandle |-> nextHandle]

----------------------------------------------------------------------------
(* UpdateScheduler.start and stop *)

\* start(): no-op when running; otherwise initializePipelines, then
\* scheduleAllPipelines and isRunning = true; an error of initializePipelines
\* is rethrown before anything is scheduled
Start ==
    IF isRunning
    THEN UNCHANGED vars
    ELSE /\ ops < MaxOps
         /\ ops' = ops + 1
         /\ LET init == InitializePipelines(obj, DataTypes, enabledPipelines,
                                            environment, now, tzOffset)
                ts == ScheduleAllPipelines(TimerState, AllPipelines(init.obj), init.obj, now)
            IN  /\ obj' = init.obj
                /\ IF init.threw
                   THEN /\ UNCHANGED <<isRunning, timers, live, nextHandle>>
                        /\ last' = [NoLast EXCEPT !.op = "start", !.result = "threw"]
                   ELSE /\ timers' = ts.timers
                        /\ live' = ts.live
                        /\ nextHandle' = ts.nextHandle
                        /\ isRunning' = TRUE
                        /\ last' = [NoLast EXCEPT !.op = "start", !.result = "ok"]
         /\ UNCHANGED <<dataVars, environment, enabledPipelines, tzOffset, now, runs>>

\* stop() without clearTimeout: the map is cleared, the timers stay armed
StopKeepTimers(lv, tm) == lv

\* stop(): clearTimeout on every timer of the map
StopTimers(lv, tm) == { t \in lv : tm[t.id] # t.h }

\* stop(): cancels the timers, clears the map, isRunning = false.  A timer
\* that is still armed when stop() returns is marked stale.
Stop ==
    /\ ops < MaxOps
    /\ ops' = ops + 1
    /\ live' = { [t EXCEPT !.stale = TRUE] : t \in StopTimers(live, timers) }
    /\ timers' = [id \in PipelineIds |-> 0]
    /\ isRunning' = FALSE
    /\ last' = [NoLast EXCEPT !.op = "stop", !.result = "ok",
                              !.cancelled = { t.deadline : t \in live \ StopTimers(live, timers) }]
    /\ UNCHANGED <<dataVars, environment, enabledPipelines, tzOffset, now, obj, nextHandle, runs>>

----------------------------------------------------------------------------
(* ScheduledDataService.executePipeline *)

\* The synchronous start of executePipeline(id): status = 'running' on the
\* object of the map (pipeline_started is emitted with it)
BeginExecute(o, id) == [o EXCEPT ![id][Cur(o, id)].status = "running"]

\* An async call in flight that has just entered executePipeline
NewRun(kind, id, gen, egen) ==
    [ kind |-> kind, id |-> id, gen |-> gen, egen |-> egen, attempt |-> 0, calls |-> 1,
      pc |-> "exec", wake |-> NULL, events |-> <<"pipeline_started">> ]

\* executePipeline that swallows the error of executeWithFallback
ExecutePipelineSwallow(success) ==
    IF success
    THEN [status |-> "completed", events |-> <<"pipeline_completed">>, threw |-> FALSE]
    ELSE [status |-> "failed", events |-> <<"pipeline_failed">>, threw |-> FALSE]

\* The end of executePipeline: the try branch when executeWithFallback
\* resolved, the catch branch (which rethrows) when it rejected
ExecutePipelineEnd(success) ==
    IF success
    THEN [status |-> "completed", events |-> <<"pipeline_completed">>, threw |-> FALSE]
    ELSE [status |-> "failed", events |-> <<"pipeline_failed">>, threw |-> TRUE]

\* The end of executePipeline with an updatePipelineMetrics that leaves
\* failedRuns alone
UpdatePipelineFailureUncounted(p, success, t, tz) ==
    LET end == ExecutePipelineEnd(success)
        counted == [p EXCEPT !.totalRuns = @ + 1,
                             !.successfulRuns = IF success THEN @ + 1 ELSE @,
                             !.status = end.status]
    IN  IF success
        THEN [counted EXCEPT !.lastUpdate = t,
                             !.nextUpdate = CalculateNextUpdate(p.frequency, t, tz)]
        ELSE counted

\* updatePipelineMetrics, updatePipelineStatus and, on success, lastUpdate and
\* nextUpdate, on the object executePipeline took from the map
UpdatePipeline(p, success, t, tz) ==
    LET end == ExecutePipelineEnd(success)
        counted == [p EXCEPT !.totalRuns = @ + 1,
                             !.successfulRuns = IF success THEN @ + 1 ELSE @,
                             !.failedRuns = IF success THEN @ ELSE @ + 1,
                             !.status = end.status]
    IN  IF success
        THEN [counted EXCEPT !.lastUpdate = t,
                             !.nextUpdate = CalculateNextUpdate(p.frequency, t, tz)]
        ELSE counted

----------------------------------------------------------------------------
(* UpdateScheduler.executeNow *)

\* executeNow without the check of the status
NeverRunning(p) == FALSE

\* executeNow: pipeline.status === 'running'
AlreadyRunning(p) == p.status = "running"

\* executeNow(id) up to its await: throws for an unknown or running pipeline,
\* otherwise enters executePipeline
ExecuteNow(id) ==
    LET cur == Cur(obj, id)
    IN  IF cur = 0
        THEN /\ last' = [NoLast EXCEPT !.op = "executeNow", !.id = id,
                                       !.result = "not_found"]
             /\ UNCHANGED <<dataVars, environment, enabledPipelines, tzOffset, now, isRunning, obj,
                            timers, live, nextHandle, runs, ops>>
        ELSE IF AlreadyRunning(obj[id][cur])
        THEN /\ last' = [NoLast EXCEPT !.op = "executeNow", !.id = id, !.gen = cur,
                                       !.result = "already_running"]
             /\ UNCHANGED <<dataVars, environment, enabledPipelines, tzOffset, now, isRunning, obj,
                            timers, live, nextHandle, runs, ops>>
        ELSE /\ ops < MaxOps
             /\ obj' = BeginExecute(obj, id)
             /\ runs' = runs (+) SetToBag({NewRun("manual", id, cur, cur)})
             /\ ops' = ops + 1
             /\ last' = [NoLast EXCEPT !.op = "executeNow", !.id = id, !.gen = cur,
                                       !.kind = "manual", !.result = "started",
                                       !.events = <<"pipeline_started">>]
             /\ UNCHANGED <<dataVars, environment, enabledPipelines, tzOffset, now, isRunning,
                            timers, live, nextHandle>>

----------------------------------------------------------------------------
(* UpdateScheduler: the timer callback and executePipelineWithRetry *)

\* The retry delay computed before attempt is incremented
RetryDelayBeforeIncrement(attempt) == Min(1000 * 2 ^ (attempt - 1), 30000)

\* retryDelay = Math.min(1000 * Math.pow(2, attempt), 30000), in ms
RetryDelay(attempt) == Min(1000 * 2 ^ attempt, 30000)

\* A catch block that rethrows once the retries are exhausted
RetryCatchRethrow(attempt, maxRetries) ==
    IF attempt >= maxRetries THEN "rethrow" ELSE "backoff"

\* The catch block of executePipelineWithRetry, attempt already incremented:
\* notifyFailure and break once attempt >= maxRetries, otherwise wait and loop
RetryCatch(attempt, maxRetries) ==
    IF attempt >= maxRetries THEN "break" ELSE "backoff"

\* The timer armed by schedulePipeline fires: executePipelineWithRetry(pipeline)
\* enters its loop and calls executePipeline(pipeline.id)
TimerFire(tm) ==
    /\ tm \in live
    /\ tm.deadline <= now
    /\ ops < MaxOps
    /\ live' = live \ {tm}
    /\ obj' = BeginExecute(obj, tm.id)
    /\ runs' = runs (+) SetToBag({NewRun("timer", tm.id, tm.gen, Cur(obj, tm.id))})
    /\ ops' = ops + 1
    /\ last' = [NoLast EXCEPT !.op = "timerFire", !.id = tm.id, !.gen = tm.gen,
                              !.kind = "timer", !.result = "started", !.handle = tm.h,
                              !.stale = tm.stale,
                              !.events = <<"pipeline_started">>, !.calls = 1]
    /\ UNCHANGED <<dataVars, environment, enabledPipelines, tzOffset, now, isRunning,
                   timers, nextHandle>>

\* The retry wait of executePipelineWithRetry is over: the loop calls
\* executePipeline(pipeline.id) again
RetryWake(r) ==
    /\ BagIn(r, runs)
    /\ r.pc = "backoff"
    /\ r.wake <= now
    /\ ops < MaxOps
    /\ r.attempt < MaxRetries(r.id)
    /\ obj' = BeginExecute(obj, r.id)
    /\ runs' = (runs (-) SetToBag({r}))
               (+) SetToBag({[r EXCEPT !.pc = "exec", !.egen = Cur(obj, r.id),
                                       !.calls = @ + 1, !.wake = NULL,
                                       !.events = <<"pipeline_started">>]})
    /\ ops' = ops + 1
    /\ last' = [NoLast EXCEPT !.op = "retry", !.id = r.id, !.gen = r.gen,
                              !.kind = "timer", !.result = "started",
                              !.events = <<"pipeline_started">>, !.attempt = r.attempt,
                              !.calls = r.calls + 1]
    /\ UNCHANGED <<dataVars, environment, enabledPipelines, tzOffset, now, isRunning,
                   timers, live, nextHandle>>

\* executeWithFallback settles: executePipeline ends and its caller continues.
\* The timer-driven caller breaks out of its loop on success or on exhausted
\* retries and reschedules, or waits for the retry delay; executeNow
\* reschedules on success and rethrows on failure.
ExecuteDone(r, success) ==
    /\ BagIn(r, runs)
    /\ r.pc = "exec"
    /\ LET end == ExecutePipelineEnd(success)
           o1 == [obj EXCEPT ![r.id][r.egen] = UpdatePipeline(@, success, now, tzOffset)]
           attempt1 == IF end.threw THEN r.attempt + 1 ELSE r.attempt
           caller == IF r.kind = "manual"
                     THEN (IF end.threw THEN "rethrow" ELSE "returned")
                     ELSE (IF end.threw THEN RetryCatch(attempt1, MaxRetries(r.id))
                           ELSE "break")
           reschedules == caller \in {"break", "returned"}
           ts == IF reschedules
                 THEN ReschedulePipeline(TimerState, r.id, r.gen, o1, now)
                 ELSE TimerState
           delayMs == IF caller = "backoff" THEN RetryDelay(attempt1) ELSE 0
           rest == runs (-) SetToBag({r})
       IN  /\ obj' = o1
           /\ timers' = ts.timers
           /\ live' = ts.live
           /\ nextHandle' = ts.nextHandle
           /\ runs' = IF caller = "backoff"
                      THEN rest (+) SetToBag({[r EXCEPT !.pc = "backoff",
                                                        !.attempt = attempt1,
                                                        !.wake = now + (delayMs \div 1000),
                                                        !.events = r.events \o end.events]})
                      ELSE rest
           /\ last' = [NoLast EXCEPT !.op = "executeDone", !.id = r.id, !.gen = r.egen,
                                     !.kind = r.kind,
                                     !.result = IF end.threw THEN "threw" ELSE "returned",
                                     !.caller = caller,
                                     !.events = r.events \o end.events,
                                     !.handle = IF reschedules THEN nextHandle[r.id] ELSE 0,
                                     !.armed = IF reschedules
                                               THEN TimerDeadline(now, Max(0, o1[r.id][r.gen].nextUpdate - now))
                                               ELSE NULL,
                                     !.delayMs = delayMs,
                                     !.attempt = attempt1,
                                     !.calls = r.calls,
                                     !.rescheduled = ts.nextHandle[r.id] - nextHandle[r.id],
                                     !.cancelled = IF reschedules
                                                   THEN { t.deadline : t \in { x \in live : x.id = r.id } }
                                                   ELSE {},
                                     !.at = now]
    /\ UNCHANGED <<dataVars, environment, enabledPipelines, tzOffset, now, isRunning, ops>>

----------------------------------------------------------------------------
(* The clock *)

\* Timers and retry waits that are due
Due == { tm \in live : tm.deadline <= now }
       \cup { r \in BagToSet(runs) : r.pc = "backoff" /\ r.wake <= now }

\* What is due is run before time passes, as long as the model explores it
Urgent == IF ops < MaxOps THEN Due ELSE {}

\* Instants at which a timer or a retry wait becomes due
Pending == { tm.deadline : tm \in { x \in live : x.deadline > now } }
           \cup { r.wake : r \in { x \in BagToSet(runs) : x.pc = "backoff" /\ x.wake > now } }

\* Time passes up to the next instant something is due; a due timer fires
\* before more time passes
AdvanceToDue ==
    /\ Urgent = {}
    /\ \E target \in Pending :
          /\ \A d \in Pending : target <= d
          /\ now' = target
    /\ UNCHANGED <<dataVars, environment, enabledPipelines, tzOffset, isRunning, obj,
                   timers, live, nextHandle, runs, ops, last>>

\* Time passes while nothing is due
AdvanceFree ==
    /\ Urgent = {}
    /\ ops < MaxOps
    /\ \A d \in Pending : now + ClockStep <= d
    /\ now' = now + ClockStep
    /\ ops' = ops + 1
    /\ UNCHANGED <<dataVars, environment, enabledPipelines, tzOffset, isRunning, obj,
                   timers, live, nextHandle, runs, last>>

----------------------------------------------------------------------------

Next ==
    \/ Start
    \/ Stop
    \/ \E id \in CallIds : ExecuteNow(id)
    \/ \E tm \in live : TimerFire(tm)
    \/ \E r \in BagToSet(runs) : RetryWake(r)
    \/ \E r \in BagToSet(runs), success \in BOOLEAN : ExecuteDone(r, success)
    \/ AdvanceToDue
    \/ AdvanceFree

Spec == Init /\ [][Next]_vars

----------------------------------------------------------------------------
(* Records: AddressData and DogPlaceData as the functions over datasets read *)
(* them.  Coordinates are in units of 0.0001 degree, lastUpdated is the age  *)
(* of the record in days; Null stands for null or undefined.                 *)

Null == "<null>"
NoLocation == << >>

Rec(id, placeId, location, formattedAddress, name, type, lastUpdated) ==
    [ id |-> id, placeId |-> placeId, location |-> location,
      formattedAddress |-> formattedAddress, name |-> name, type |-> type,
      lastUpdated |-> lastUpdated ]

\* What the adapters can return: records of the Grand-Place and around, that
\* share a placeId, share coordinates, differ in the fourth decimal of a
\* coordinate, lack a field, lie on, outside or far from the bounding box, or
\* are dated six days ahead of the clock
Records ==
    { Rec("a", "p1", <<508467, 43525>>, "Grand-Place 1", "Parc A", "park", <<1>>),
      Rec("b", "p1", <<508470, 43530>>, "Grand-Place 1", "Parc A", "park", <<2>>),
      Rec("c", Null, <<508467, 43525>>, "Rue Haute 2", "Vet C", "vet", <<1>>),
      Rec("d", "", <<508467, 43525>>, "Rue Haute 2", "Vet C", "vet", <<45>>),
      Rec("e", Null, <<508468, 43525>>, "Rue Haute 4", "Cafe E", "cafe", <<0>>),
      Rec(Null, "p6", <<508467, 43525>>, "Rue Neuve 6", "Shop F", "shop", <<1>>),
      Rec("g", "p7", NoLocation, "Rue Neuve 7", "Shop G", "shop", <<1>>),
      Rec("h", "p8", <<910000, 43525>>, "Nowhere 8", "Park H", "park", <<1>>),
      Rec("i", "p9", <<507641, 42423>>, "Halle 9", Null, "park", <<1>>),
      Rec("j", Null, <<507642, 42423>>, Null, "Parc J", "park", << >>),
      Rec("k", "p11", <<508467, 43526>>, "Rue du Midi 11", "Parc K", "park", <<-6>>) }

----------------------------------------------------------------------------
(* ScheduledDataService: validateData, isInBrussels, deduplicateData *)

\* pipeline.config.validation of the two pipelines
ValidationConfig(type) ==
    IF type = "addresses"
    THEN [ requiredFields |-> <<"id", "location", "formattedAddress">>,
           geoValidation |-> TRUE, qualityThreshold |-> 80 ]
    ELSE [ requiredFields |-> <<"id", "name", "location", "type">>,
           geoValidation |-> TRUE, qualityThreshold |-> 85 ]

\* !(field in item) || item[field] == null
MissingField(item, field) ==
    IF field = "location" THEN item.location = NoLocation ELSE item[field] = Null

\* latitude >= 50.7642 && latitude <= 50.9073 && longitude >= 4.2423 && longitude <= 4.4812
IsInBrussels(latitude, longitude) ==
    /\ latitude >= 507642 /\ latitude <= 509073
    /\ longitude >= 42423 /\ longitude <= 44812

\* latitude < -90 || latitude > 90 || longitude < -180 || longitude > 180
InvalidCoordinates(latitude, longitude) ==
    \/ latitude < 0 - 900000 \/ latitude > 900000
    \/ longitude < 0 - 1800000 \/ longitude > 1800000

\* The body of the loop of validateData for one record: "keep", "drop" (a
\* ValidationError, caught, or a record outside Brussels) or "throw" (reading
\* the coordinates of a missing location is a TypeError, which is rethrown)
ValidateItem(item, config) ==
    IF \E k \in 1..Len(config.requiredFields) : MissingField(item, config.requiredFields[k])
    THEN "drop"
    ELSE IF ~config.geoValidation THEN "keep"
    ELSE IF item.location = NoLocation THEN "throw"
    ELSE IF InvalidCoordinates(item.location[1], item.location[2]) THEN "drop"
    ELSE IF ~IsInBrussels(item.location[1], item.location[2]) THEN "drop"
    ELSE "keep"

\* validateData that keeps every record
ValidateKeepAll(data, config) == [threw |-> FALSE, data |-> data]

\* validateData(data, config): the records kept, in order, or the throw
ValidateData(data, config) ==
    IF \E k \in 1..Len(data) : ValidateItem(data[k], config) = "throw"
    THEN [threw |-> TRUE, data |-> << >>]
    ELSE [threw |-> FALSE,
          data |-> SelectSeq(data, LAMBDA item : ValidateItem(item, config) = "keep")]

\* item.placeId || `${latitude},${longitude}`: the key string, as the placeId
\* or as the two numbers around a comma
DedupKey(item) ==
    IF item.placeId \notin {Null, ""}
    THEN <<item.placeId>>
    ELSE <<item.location[1], ",", item.location[2]>>

\* deduplicateData that keeps every record
DeduplicateKeepAll(data) == data

\* deduplicateData(data): the first record of each key, in order
RECURSIVE DedupFrom(_, _, _)
DedupFrom(data, seen, unique) ==
    IF data = << >> THEN unique
    ELSE LET key == DedupKey(Head(data))
         IN  IF key \in seen
             THEN DedupFrom(Tail(data), seen, unique)
             ELSE DedupFrom(Tail(data), seen \cup {key}, Append(unique, Head(data)))

DeduplicateData(data) == DedupFrom(data, {}, << >>)

----------------------------------------------------------------------------
(* DataVersionService: calculateQualityMetrics and createVersion *)

\* values.reduce((a, b) => a + b, 0)
SumOver(values) ==
    LET sum[k \in 0..Len(values)] == IF k = 0 THEN 0 ELSE sum[k - 1] + values[k]
    IN  sum[Len(values)]

\* Math.round(n / d) for n >= 0, d > 0
RoundDiv(n, d) == (2 * n + d) \div (2 * d)

\* Of 'id', 'location', 'lastUpdated', the fields that are not null, undefined or ''
FilledFields(item) ==
    (IF item.id \in {Null, ""} THEN 0 ELSE 1)
    + (IF item.location = NoLocation THEN 0 ELSE 1)
    + (IF item.lastUpdated = << >> THEN 0 ELSE 1)

ValidLocation(item) ==
    IF InvalidCoordinates(item.location[1], item.location[2]) THEN 0 ELSE 1

AgeDays(item) == item.lastUpdated[1]

\* calculateQualityMetrics(data), in exact arithmetic: completeness is the
\* mean of filled / 3, accuracy the share of valid locations, freshness
\* max(0, 1 - avgAge / 30 days), each times 100, and the overall score their
\* mean (over the common denominator 270 * total); each is rounded.  Reading
\* the coordinates of a missing location throws; a missing lastUpdated makes
\* the freshness and the overall score NaN (nan).
CalculateQualityMetrics(data) ==
    IF data = << >>
    THEN [ threw |-> FALSE, nan |-> FALSE, completenessScore |-> 0, accuracyScore |-> 0,
           freshnessScore |-> 0, overallScore |-> 0 ]
    ELSE IF \E k \in 1..Len(data) : data[k].location = NoLocation
    THEN [ threw |-> TRUE, nan |-> FALSE, completenessScore |-> 0, accuracyScore |-> 0,
           freshnessScore |-> 0, overallScore |-> 0 ]
    ELSE LET total == Len(data)
             filled == SumOver([k \in 1..Len(data) |-> FilledFields(data[k])])
             valid == SumOver([k \in 1..Len(data) |-> ValidLocation(data[k])])
             completenessScore == RoundDiv(100 * filled, 3 * total)
             accuracyScore == RoundDiv(100 * valid, total)
         IN  IF \E k \in 1..Len(data) : data[k].lastUpdated = << >>
             THEN [ threw |-> FALSE, nan |-> TRUE, completenessScore |-> completenessScore,
                    accuracyScore |-> accuracyScore, freshnessScore |-> 0, overallScore |-> 0 ]
             ELSE LET sumAges == SumOver([k \in 1..Len(data) |-> AgeDays(data[k])])
                      completeness == 3000 * filled
                      accuracy == 9000 * valid
                      freshness == Max(0, 9000 * total - 300 * sumAges)
                  IN  [ threw |-> FALSE, nan |-> FALSE,
                        completenessScore |-> completenessScore,
                        accuracyScore |-> accuracyScore,
                        freshnessScore |-> RoundDiv(freshness, 90 * total),
                        overallScore |-> RoundDiv(completeness + accuracy + freshness,
                                                  270 * total) ]

\* hasMinimumQualityData that no dataset satisfies
NeverMinimumQuality(data, threshold) == FALSE

\* hasMinimumQualityData(data, threshold); a comparison with NaN is false
HasMinimumQualityData(data, threshold) ==
    IF data = << >> THEN FALSE
    ELSE LET q == CalculateQualityMetrics(data)
         IN  ~q.threw /\ ~q.nan /\ q.overallScore >= threshold

\* createVersion: the object each record is mapped to before JSON.stringify
HashedFields(type, item) ==
    [ id |-> item.id, location |-> item.location, lastUpdated |-> item.lastUpdated,
      key |-> IF type = "addresses" THEN item.formattedAddress ELSE item.name ]

\* createVersion: JSON.stringify(data.map(...)), the array in the order of data
RECURSIVE DataString(_, _)
DataString(type, data) ==
    IF data = << >> THEN << >>
    ELSE <<HashedFields(type, Head(data))>> \o DataString(type, Tail(data))

\* createHash('sha256').update(dataString).digest('hex'): two strings have the
\* same digest exactly when they are equal (no collision is modelled)
Sha256(dataString) == <<"sha256", dataString>>

\* versions.set(versionId, version): replaces the entry of the same id in
\* place, otherwise appends
MapSet(store, version) ==
    IF \E k \in 1..Len(store) : store[k].id = version.id
    THEN [k \in 1..Len(store) |-> IF store[k].id = version.id THEN version ELSE store[k]]
    ELSE Append(store, version)

\* createVersion(type, source, data, metadata) at clock t: the version record,
\* with id `${type}_${source}_${Date.now()}`
CreateVersion(type, source, data, t) ==
    [ id |-> <<type, source, t>>,
      timestamp |-> t,
      hash |-> Sha256(DataString(type, data)),
      source |-> source,
      type |-> type,
      recordCount |-> Len(data) ]

\* compareVersions that reports an update whatever the hashes
CompareAlwaysChanged(current, new) ==
    [ needsUpdate |-> TRUE, reason |-> "DATA_CHANGED",
      recordsAdded |-> 0, recordsModified |-> 0, recordsRemoved |-> 0 ]

\* compareVersions(currentVersion, newVersion); current is << >> for null and
\* <<version>> otherwise
CompareVersions(current, new) ==
    IF current = << >>
    THEN [ needsUpdate |-> TRUE, reason |-> "NO_PREVIOUS_VERSION",
           recordsAdded |-> new.recordCount, recordsModified |-> 0, recordsRemoved |-> 0 ]
    ELSE IF current[1].hash = new.hash
    THEN [ needsUpdate |-> FALSE, reason |-> "IDENTICAL_HASH",
           recordsAdded |-> 0, recordsModified |-> 0, recordsRemoved |-> 0 ]
    ELSE LET recordDiff == new.recordCount - current[1].recordCount
         IN  [ needsUpdate |-> TRUE, reason |-> "DATA_CHANGED",
               recordsAdded |-> Max(0, recordDiff),
               recordsModified |-> IF recordDiff < 0 THEN -recordDiff ELSE recordDiff,
               recordsRemoved |-> Max(0, -recordDiff) ]

\* Stable insertion of a version after those at least as recent
RECURSIVE InsertByTimestamp(_, _)
InsertByTimestamp(sorted, version) ==
    IF sorted = << >> THEN <<version>>
    ELSE IF Head(sorted).timestamp >= version.timestamp
    THEN <<Head(sorted)>> \o InsertByTimestamp(Tail(sorted), version)
    ELSE <<version>> \o sorted

\* versions.sort((a, b) => b.timestamp.getTime() - a.timestamp.getTime()), a
\* stable sort, newest first
RECURSIVE NewestFirst(_)
NewestFirst(group) ==
    IF group = << >> THEN << >>
    ELSE InsertByTimestamp(NewestFirst(SubSeq(group, 1, Len(group) - 1)), group[Len(group)])

\* cleanupOldVersions that removes nothing
CleanupKeepAll(store, keepCount) == store

\* cleanupOldVersions(keepCount), keepCount >= 0: of each group of versions of
\* one `${type}_${source}` key, sorted newest first, those after the first
\* keepCount are deleted from the map by id
CleanupOldVersions(store, keepCount) ==
    LET Group(v) == SelectSeq(store, LAMBDA w : w.type = v.type /\ w.source = v.source)
        ToRemove(v) == LET sorted == NewestFirst(Group(v))
                       IN  { sorted[k].id : k \in (keepCount + 1)..Len(sorted) }
    IN  SelectSeq(store, LAMBDA v : v.id \notin ToRemove(v))

----------------------------------------------------------------------------
(* The functions over datasets, applied to the datasets an adapter can return *)

\* The sequences over S of length at most n
SeqsUpTo(S, n) == UNION { [1..k -> S] : k \in 0..n }

\* The scheduler as constructed and left alone
SchedulerIdle ==
    /\ environment = "production"
    /\ enabledPipelines = {"addresses", "dogPlaces"}
    /\ tzOffset = 0
    /\ isRunning = FALSE
    /\ obj = [id \in PipelineIds |-> << >>]
    /\ timers = [id \in PipelineIds |-> 0]
    /\ live = {}
    /\ nextHandle = [id \in PipelineIds |-> 1]
    /\ runs = EmptyBag
    /\ ops = 0
    /\ last = NoLast

schedulerVars == <<environment, enabledPipelines, tzOffset, isRunning, obj,
                   timers, live, nextHandle, runs, ops, last>>

DataInit ==
    /\ SchedulerIdle
    /\ now = 0
    /\ pipe = NoPipe
    /\ fb = NoCall
    /\ versions = << >>
    /\ input \in [type : {"addresses", "dogPlaces"}, data : SeqsUpTo(Records, MaxLen)]
    /\ out = NoOut

\* validateData(input, pipeline.config.validation)
Validate ==
    /\ out.op = "none"
    /\ out' = [ op |-> "validateData",
                result |-> ValidateData(input.data, ValidationConfig(input.type)) ]
    /\ UNCHANGED <<schedulerVars, now, pipe, fb, versions, input>>

\* deduplicateData on the records validateData kept
Deduplicate ==
    /\ out.op = "validateData"
    /\ ~out.result.threw
    /\ out' = [ op |-> "deduplicateData", data |-> out.result.data,
                unique |-> DeduplicateData(out.result.data) ]
    /\ UNCHANGED <<schedulerVars, now, pipe, fb, versions, input>>

\* calculateQualityMetrics(input)
Measure ==
    /\ out.op = "none"
    /\ out' = [ op |-> "calculateQualityMetrics", data |-> input.data,
                metrics |-> CalculateQualityMetrics(input.data) ]
    /\ UNCHANGED <<schedulerVars, now, pipe, fb, versions, input>>

DataNext == Validate \/ Deduplicate \/ Measure

DataSpec == DataInit /\ [][DataNext]_vars

----------------------------------------------------------------------------
(* The version store: createVersion called on a dataset and on the same      *)
(* records in another order, compareVersions on the versions returned, and   *)
(* cleanupOldVersions; the runs explored create their versions before the    *)
(* first cleanup.  In this specification now counts milliseconds.            *)

\* The records the versioned datasets are made of
VersionRecords == { r \in Records : r.id \in {"a", "c"} }

Reverse(data) == [k \in 1..Len(data) |-> data[Len(data) + 1 - k]]

\* The versions created so far, whether a cleanup ran, and what the version
\* service was last asked
NoVersionOp ==
    [ op |-> "none", created |-> << >>, cleaned |-> FALSE,
      keepCount |-> 0, before |-> << >>, repeated |-> FALSE,
      current |-> << >>, new |-> << >>, comparison |-> << >> ]

VersionInit ==
    /\ SchedulerIdle
    /\ now = 0
    /\ pipe = NoPipe
    /\ fb = NoCall
    /\ versions = << >>
    /\ input \in [type : {"addresses", "dogPlaces"}, data : SeqsUpTo(VersionRecords, MaxLen - 1)]
    /\ out = NoVersionOp

\* createVersion(input.type, source, data, metadata) on the fetched records, in
\* the order fetched or in the reverse order; out.created keeps each call's
\* data with the version it returned
CreateVersionCall(source, reversed) ==
    /\ Len(out.created) < MaxVersions
    /\ ~out.cleaned
    /\ LET data == IF reversed THEN Reverse(input.data) ELSE input.data
           version == CreateVersion(input.type, source, data, now)
       IN  /\ versions' = MapSet(versions, version)
           /\ out' = [NoVersionOp EXCEPT
                         !.op = "createVersion",
                         !.cleaned = out.cleaned,
                         !.created = Append(out.created, [data |-> data, version |-> version])]
    /\ UNCHANGED <<schedulerVars, now, pipe, fb, input>>

\* compareVersions(current, new) on versions createVersion returned, current
\* possibly null
CompareVersionsCall(current, new) ==
    /\ out' = [NoVersionOp EXCEPT
                  !.op = "compareVersions",
                  !.cleaned = out.cleaned, !.created = out.created,
                  !.current = current, !.new = <<new>>,
                          !.comparison = <<CompareVersions(current, new)>>]
    /\ UNCHANGED <<schedulerVars, now, pipe, fb, versions, input>>

\* cleanupOldVersions(keepCount); out.repeated tells that the call before it
\* was cleanupOldVersions with the same keepCount
CleanupCall(keepCount) ==
    /\ versions' = CleanupOldVersions(versions, keepCount)
    /\ out' = [NoVersionOp EXCEPT
                          !.op = "cleanupOldVersions",
                          !.created = out.created,
                          !.cleaned = TRUE,
                          !.keepCount = keepCount,
                          !.before = versions,
                          !.repeated = (out.op = "cleanupOldVersions" /\ out.keepCount = keepCount)]
    /\ UNCHANGED <<schedulerVars, now, pipe, fb, input>>

\* The clock moves to the next millisecond; only the time between two
\* createVersion calls matters
Tick ==
    /\ now < Len(out.created)
    /\ Len(out.created) < MaxVersions
    /\ now' = now + 1
    /\ UNCHANGED <<schedulerVars, pipe, fb, versions, input, out>>

VersionNext ==
    \/ \E source \in {"Google", "OSM"}, reversed \in BOOLEAN : CreateVersionCall(source, reversed)
    \/ \E new \in { out.created[k].version : k \in 1..Len(out.created) },
          current \in {<< >>} \cup { <<out.created[k].version>> : k \in 1..Len(out.created) } :
          CompareVersionsCall(current, new)
    \/ \E keepCount \in 0..MaxVersions : CleanupCall(keepCount)
    \/ Tick

VersionSpec == VersionInit /\ [][VersionNext]_vars

----------------------------------------------------------------------------
(* ScheduledDataService.executeWithFallback: one call, source by source.     *)
(* In this specification now counts milliseconds since the call.             *)

\* DataSourceConfigManager: provider, priority, quota.daily,
\* quota.warningThreshold, config.timeout and config.rateLimit (production) of
\* the sources of each data type
ConfiguredSources(type) ==
    IF type = "addresses"
    THEN << [provider |-> "Google", priority |-> 1, daily |-> 1000, warningThreshold |-> 80,
             timeout |-> 10000, rateLimit |-> 2],
            [provider |-> "URBIS", priority |-> 2, daily |-> 10000, warningThreshold |-> 90,
             timeout |-> 15000, rateLimit |-> 1],
            [provider |-> "OSM", priority |-> 3, daily |-> 100000, warningThreshold |-> 95,
             timeout |-> 8000, rateLimit |-> 1] >>
    ELSE << [provider |-> "Google", priority |-> 1, daily |-> 1000, warningThreshold |-> 80,
             timeout |-> 10000, rateLimit |-> 2],
            [provider |-> "Foursquare", priority |-> 2, daily |-> 500, warningThreshold |-> 85,
             timeout |-> 12000, rateLimit |-> 3],
            [provider |-> "OSM", priority |-> 3, daily |-> 50000, warningThreshold |-> 95,
             timeout |-> 10000, rateLimit |-> 1] >>

\* Priorities a pipeline configuration may give its three sources: the
\* configured order, another order, and a tie
PriorityChoices == { <<1, 2, 3>>, <<3, 1, 2>>, <<2, 1, 2>> }

\* quota.current of a source, relative to quota.daily: unused, at the warning
\* threshold, at the limit, above it
UsageChoices == {"unused", "warning", "limit", "over"}

Usage(src, choice) ==
    IF choice = "unused" THEN 0
    ELSE IF choice = "warning" THEN (src.daily * src.warningThreshold) \div 100
    ELSE IF choice = "limit" THEN src.daily
    ELSE src.daily + 1

\* The pipelines executeWithFallback may be handed: the configured sources of
\* the type with any active flags, a choice of priorities, a quota usage per
\* source, config.timeout unset or not on the last source, fallback on or off
Pipelines ==
    { [ type |-> type,
        sources |-> [k \in 1..3 |->
                      [ provider |-> ConfiguredSources(type)[k].provider,
                        priority |-> prio[k],
                        isActive |-> active[k],
                        current |-> Usage(ConfiguredSources(type)[k], usage[k]),
                        daily |-> ConfiguredSources(type)[k].daily,
                        warningThreshold |-> ConfiguredSources(type)[k].warningThreshold,
                        timeout |-> IF k = 3 /\ noTimeout THEN 0
                                    ELSE ConfiguredSources(type)[k].timeout,
                        rateLimit |-> ConfiguredSources(type)[k].rateLimit ]],
        enableFallback |-> enableFallback ] :
      type \in {"addresses", "dogPlaces"},
      prio \in PriorityChoices,
      active \in [1..3 -> BOOLEAN],
      usage \in [1..3 -> UsageChoices],
      noTimeout \in BOOLEAN,
      enableFallback \in BOOLEAN }

\* What an adapter may resolve with: nothing, one stale record, two fresh
\* records, and three records of which one repeats a placeId of the fresh
\* ones, one lies outside Brussels and one repeats coordinates
AdapterResults ==
    LET R(id) == CHOOSE r \in Records : r.id = id
    IN  { << >>, <<R("d")>>, <<R("a"), R("c")>>, <<R("b"), R("i"), R("e")>> }

NoError == [kind |-> "none", source |-> ""]
Error(kind, source) == [kind |-> kind, source |-> source]

\* One entry of the record of what a call did
Ev(ev, source, n) == [ev |-> ev, source |-> source, n |-> n]

\* Stable insertion of a source after those of priority at most its own
RECURSIVE InsertByPriority(_, _)
InsertByPriority(sorted, src) ==
    IF sorted = << >> THEN <<src>>
    ELSE IF Head(sorted).priority <= src.priority
    THEN <<Head(sorted)>> \o InsertByPriority(Tail(sorted), src)
    ELSE <<src>> \o sorted

\* sort((a, b) => a.priority - b.priority), a stable sort
RECURSIVE SortByPriority(_)
SortByPriority(sources) ==
    IF sources = << >> THEN << >>
    ELSE InsertByPriority(SortByPriority(SubSeq(sources, 1, Len(sources) - 1)),
                          sources[Len(sources)])

\* The sources sorted by priority, the inactive ones included
AllSourcesSorted(sources) == SortByPriority(sources)

\* pipeline.sources.filter(source => source.isActive).sort(...)
ActiveSources(sources) ==
    SortByPriority(SelectSeq(sources, LAMBDA src : src.isActive))

\* hasAvailableQuota that lets a usage equal to the limit pass
QuotaBelowOrAtLimit(source) == ~(source.current > source.daily)

\* hasAvailableQuota(source): false when dailyUsage >= dailyLimit
HasAvailableQuota(source) == ~(source.current >= source.daily)

\* hasAvailableQuota: dailyUsage >= dailyLimit * warningThreshold / 100
QuotaWarning(source) == source.current * 100 >= source.daily * source.warningThreshold

\* No wait after a failure
NoWaitAfterFailure(source, error) == 0

\* The catch block: await this.delay(source.config.timeout || 5000) for a
\* QuotaExceededError, no wait for another error
WaitAfterFailure(source, error) ==
    IF error.kind = "QuotaExceededError"
    THEN (IF source.timeout # 0 THEN source.timeout ELSE 5000)
    ELSE 0

\* A catch block that always continues with the next source
NeverPropagates(p) == FALSE

\* The catch block: if (!pipeline.config.fallback.enableFallback) throw error
Propagates(p) == ~p.enableFallback

\* After the loop, no throw
NeverThrowsLastError(call) == FALSE

\* After the loop: combinedData.length === 0 && lastError
ThrowsLastError(call) == call.combinedData = << >> /\ call.lastError # NoError

\* applyThrottling: delay(1000 / (rateLimit || 1)), in whole milliseconds
ThrottleDelay(source) == 1000 \div (IF source.rateLimit # 0 THEN source.rateLimit ELSE 1)

\* executeWithFallback(pipeline) entered: its locals, the record of what it
\* does, and how it and the executePipeline call around it end
NewCall(p) ==
    LET activeSources == ActiveSources(p.sources)
    IN  [ pc |-> IF activeSources = << >> THEN "after" ELSE "loop",
          activeSources |-> activeSources,
          i |-> 1,
          combinedData |-> << >>,
          sourcesUsed |-> << >>,
          lastError |-> NoError,
          log |-> << >>,
          persisted |-> << >>,
          outcome |-> "pending",
          error |-> NoError,
          status |-> "running" ]

FallbackInit ==
    /\ SchedulerIdle
    /\ now = 0
    /\ versions = << >>
    /\ input = NoInput
    /\ out = NoOut
    /\ pipe \in Pipelines
    /\ fb = NewCall(pipe)

\* The next iteration of the for loop, or the code after it
NextSource(call) ==
    [call EXCEPT !.i = @ + 1,
                 !.pc = IF call.i + 1 > Len(call.activeSources) THEN "after" ELSE "loop"]

\* executeWithFallback throws: executePipeline's catch block sets the status
\* and rethrows
Throws(call, error) ==
    [call EXCEPT !.pc = "done", !.outcome = "threw", !.error = error,
                 !.status = ExecutePipelineEnd(FALSE).status]

\* The catch block of the loop for the source at hand
CatchSourceError(call, source, error) ==
    LET wait == WaitAfterFailure(source, error)
        caught == [call EXCEPT
                     !.lastError = error,
                     !.log = @ \o <<Ev("source_failed", source.provider, 0)>>
                               \o (IF wait > 0 THEN <<Ev("delay", source.provider, wait)>>
                                   ELSE << >>)]
    IN  IF Propagates(pipe) THEN Throws(caught, error) ELSE NextSource(caught)

\* What the try block logs up to the adapter call
UpToAcquire(source) ==
    <<Ev("quota_checked", source.provider, source.current)>>
    \o (IF QuotaWarning(source) THEN <<Ev("quota_warning", source.provider, 0)>> ELSE << >>)
    \o << Ev("source_connected", source.provider, 0),
          Ev("delay", source.provider, ThrottleDelay(source)),
          Ev("acquire", source.provider, 0) >>

\* The quota of the source is used up: QuotaExceededError, thrown in the try block
SourceQuotaExceeded ==
    /\ fb.pc = "loop"
    /\ LET source == fb.activeSources[fb.i]
           error == Error("QuotaExceededError", source.provider)
           checked == [fb EXCEPT !.log = @ \o <<Ev("quota_checked", source.provider,
                                                   source.current)>>]
       IN  /\ ~HasAvailableQuota(source)
           /\ fb' = CatchSourceError(checked, source, error)
           /\ now' = now + WaitAfterFailure(source, error)
    /\ UNCHANGED <<schedulerVars, pipe, versions, input, out>>

\* acquireDataFromSource rejects
SourceFails ==
    /\ fb.pc = "loop"
    /\ LET source == fb.activeSources[fb.i]
           error == Error("DataAcquisitionError", source.provider)
           tried == [fb EXCEPT !.log = @ \o UpToAcquire(source)]
       IN  /\ HasAvailableQuota(source)
           /\ fb' = CatchSourceError(tried, source, error)
           /\ now' = now + ThrottleDelay(source) + WaitAfterFailure(source, error)
    /\ UNCHANGED <<schedulerVars, pipe, versions, input, out>>

\* acquireDataFromSource resolves with data: validateData, then the data and
\* the source are accumulated and the loop stops when the quality suffices
SourceReturns(data) ==
    /\ fb.pc = "loop"
    /\ LET source == fb.activeSources[fb.i]
           config == ValidationConfig(pipe.type)
           validated == ValidateData(data, config)
           tried == [fb EXCEPT !.log = @ \o UpToAcquire(source)
                                         \o <<Ev("validate", source.provider, Len(data))>>]
           combined == fb.combinedData \o validated.data
           pushed == [tried EXCEPT !.combinedData = combined,
                                   !.sourcesUsed = Append(@, source.provider)]
       IN  /\ HasAvailableQuota(source)
           /\ fb' = IF validated.threw
                    THEN CatchSourceError(tried, source, Error("TypeError", source.provider))
                    ELSE IF HasMinimumQualityData(combined, config.qualityThreshold)
                    THEN [pushed EXCEPT !.pc = "after"]
                    ELSE NextSource(pushed)
           /\ now' = now + ThrottleDelay(source)
    /\ UNCHANGED <<schedulerVars, pipe, versions, input, out>>

\* After the loop: throw lastError when nothing was collected, otherwise
\* deduplicateData and persistData, which resolves or rejects; executePipeline
\* around the call sets the status
Finish(persistOk) ==
    /\ fb.pc = "after"
    /\ fb' = IF ThrowsLastError(fb) THEN Throws(fb, fb.lastError)
             ELSE LET uniqueData == DeduplicateData(fb.combinedData)
                      persisting == [fb EXCEPT
                                       !.persisted = uniqueData,
                                       !.log = @ \o <<Ev("persist", "", Len(uniqueData))>>]
                  IN  IF ~persistOk THEN Throws(persisting, Error("PersistError", ""))
                      ELSE [persisting EXCEPT
                              !.pc = "done", !.outcome = "returned",
                              !.log = @ \o <<Ev("data_persisted", "", Len(uniqueData))>>,
                              !.status = ExecutePipelineEnd(TRUE).status]
    /\ UNCHANGED <<schedulerVars, now, pipe, versions, input, out>>

FallbackNext ==
    \/ SourceQuotaExceeded
    \/ SourceFails
    \/ \E data \in AdapterResults : SourceReturns(data)
    \/ \E persistOk \in BOOLEAN : Finish(persistOk)

FallbackSpec == FallbackInit /\ [][FallbackNext]_vars

----------------------------------------------------------------------------
(* ScheduledDataService: the reliability of one source over its attempts.    *)
(* uptime and errorRate are in tenths, the score in hundredths; in this      *)
(* specification now counts days.                                            *)

\* reliability of the configured sources (Google, URBIS, OSM): score, uptime,
\* errorRate, consecutiveFailures; no lastFailure
ConfiguredReliability ==
    { [ score |-> 9500, uptime |-> 995, errorRate |-> 5, consecutiveFailures |-> 0,
        lastFailure |-> << >> ],
      [ score |-> 8800, uptime |-> 978, errorRate |-> 22, consecutiveFailures |-> 0,
        lastFailure |-> << >> ],
      [ score |-> 9200, uptime |-> 991, errorRate |-> 9, consecutiveFailures |-> 0,
        lastFailure |-> << >> ] }

\* calculateReliabilityScore(reliability) at day t:
\* 0.4 * uptime + 0.3 * max(0, 100 - errorRate * 10)
\*   + 0.3 * (lastFailure ? max(0, 100 - days since lastFailure) : 100)
CalculateReliabilityScore(reliability, t) ==
    LET uptimeScore == reliability.uptime
        errorScore == Max(0, 100 - reliability.errorRate)
        freshnessScore == IF reliability.lastFailure # << >>
                          THEN Max(0, 100 - (t - reliability.lastFailure[1]))
                          ELSE 100
    IN  4 * uptimeScore + 30 * errorScore + 30 * freshnessScore

\* updateSourceReliability(source, success) at day t
UpdateSourceReliability(reliability, success, t) ==
    LET updated ==
          IF success
          THEN [reliability EXCEPT !.consecutiveFailures = 0,
                                   !.uptime = Min(1000, @ + 1)]
          ELSE [reliability EXCEPT !.consecutiveFailures = @ + 1,
                                   !.lastFailure = <<t>>,
                                   !.uptime = Max(0, @ - 10)]
    IN  [updated EXCEPT !.score = CalculateReliabilityScore(updated, t)]

ReliabilityInit ==
    /\ SchedulerIdle
    /\ now = 0
    /\ pipe = NoPipe
    /\ fb = NoCall
    /\ versions = << >>
    /\ input = NoInput
    /\ out \in { [ op |-> "none", attempts |-> 0, success |-> FALSE,
                   before |-> reliability, reliability |-> reliability ] :
                 reliability \in ConfiguredReliability }

\* An acquisition attempt on the source ends: updateSourceReliability
RecordAttempt(success) ==
    /\ out.attempts < MaxAttempts
    /\ out' = [ op |-> "updateSourceReliability", attempts |-> out.attempts + 1,
                success |-> success, before |-> out.reliability,
                reliability |-> UpdateSourceReliability(out.reliability, success, now) ]
    /\ UNCHANGED <<schedulerVars, now, pipe, fb, versions, input>>

\* A day passes
DayPasses ==
    /\ now < MaxDays
    /\ now' = now + 1
    /\ UNCHANGED <<schedulerVars, pipe, fb, versions, input, out>>

ReliabilityNext ==
    \/ \E success \in BOOLEAN : RecordAttempt(success)
    \/ DayPasses

ReliabilitySpec == ReliabilityInit /\ [][ReliabilityNext]_vars

----------------------------------------------------------------------------
(* Properties *)

\* The status of the pipeline object the map holds for id
StatusOf(id) == obj[id][Cur(obj, id)].status

LiveTimers(id) == { tm \in live : tm.id = id }

TimerRunDone == last.op = "executeDone" /\ last.kind = "timer"

RetriesExhausted ==
    /\ TimerRunDone
    /\ last.result = "threw"
    /\ last.attempt >= MaxRetries(last.id)

\* C1: executeNow(id) on a pipeline whose status is 'running' throws, starts no
\* call of executePipeline and leaves the pipelines (status, metrics), the
\* timers and the calls in flight as they were.
C1_ExecuteNowWhileRunningRejected ==
    [][ \A id \in PipelineIds :
          ( /\ Cur(obj, id) > 0
            /\ StatusOf(id) = "running"
            /\ last'.op = "executeNow"
            /\ last'.id = id
            /\ last' # last )
          => ( /\ last'.result = "already_running"
               /\ UNCHANGED <<obj, timers, live, nextHandle, runs, isRunning>> ) ]_vars

\* C1 witness: an executeNow call was rejected because the pipeline was running
C1_Witness ==
    /\ last.op = "executeNow"
    /\ last.result = "already_running"
    /\ StatusOf(last.id) = "running"
    /\ \E r \in BagToSet(runs) : r.id = last.id /\ r.pc = "exec"

\* C2 (as claimed): when a timer-driven run has failed maxRetries times in a
\* row, the pipeline is re-armed for an instant strictly later than the failed
\* run.
C2_RearmedStrictlyAfterFailedRun ==
    RetriesExhausted => (last.rescheduled = 1 /\ last.armed > last.at)

\* C3: at most one live timer per pipeline id in every reachable state.
C3_OneLiveTimerPerPipeline ==
    \A id \in PipelineIds : Cardinality(LiveTimers(id)) <= 1

\* C3 witness: a pipeline was re-scheduled while a timer was armed for it, and
\* one timer is armed for it now
C3_Witness ==
    /\ last.op = "executeDone"
    /\ last.rescheduled = 1
    /\ last.cancelled # {}
    /\ Cardinality(LiveTimers(last.id)) = 1

\* C4: a timer that was armed when stop() was called never fires.
C4_NoStaleTimerFires ==
    /\ ~(last.op = "timerFire" /\ last.stale)
    /\ \A tm \in live : ~tm.stale

\* C4 witness: stop() cancelled armed timers and the clock has passed the
\* instant one of them was due, with nothing executed since
C4_Witness ==
    /\ last.op = "stop"
    /\ \E d \in last.cancelled : now > d
    /\ live = {}

\* C5 (as claimed): in every environment, with both pipelines enabled, start()
\* completes with addresses registered as biannual and dogPlaces as weekly,
\* each idle with a timer armed, and the scheduler running.
C5_StartRegistersBothPipelines ==
    (last.op = "start" /\ enabledPipelines = {"addresses", "dogPlaces"})
    => ( /\ last.result = "ok"
         /\ isRunning
         /\ \A id \in PipelineIds :
              /\ Cur(obj, id) > 0
              /\ obj[id][Cur(obj, id)].frequency
                   = (IF id = "addresses_pipeline" THEN "biannual" ELSE "weekly")
              /\ StatusOf(id) = "idle"
              /\ Cardinality(LiveTimers(id)) = 1 )

\* C6 (as claimed): a pipeline's status moves only idle -> running ->
\* completed or failed, is idle or scheduled again once the scheduler has
\* re-armed the pipeline after a run, and is never paused or cancelled.
C6_StatusMachine ==
    [][ LET StatusMoves ==
                { <<"idle", "running">>, <<"running", "completed">>,
                  <<"running", "failed">>,
                  <<"completed", "idle">>, <<"completed", "scheduled">>,
                  <<"failed", "idle">>, <<"failed", "scheduled">> }
        IN  /\ \A id \in PipelineIds : \A g \in 1..Len(obj[id]) :
                 /\ \/ obj'[id][g].status = obj[id][g].status
                    \/ <<obj[id][g].status, obj'[id][g].status>> \in StatusMoves
                 /\ obj'[id][g].status \notin {"paused", "cancelled"}
            /\ (last'.op = "executeDone" /\ last'.rescheduled = 1 /\ last' # last)
               => obj'[last'.id][last'.gen].status \in {"idle", "scheduled"} ]_vars

\* C7: every executePipeline call first sets the status to 'running' and emits
\* pipeline_started, and ends either with status 'completed',
\* pipeline_completed emitted and the result returned, or with status
\* 'failed', pipeline_failed emitted and the error rethrown.
C7_ExecutePipelineOutcome ==
    /\ (last.result = "started" /\ last.op \in {"executeNow", "timerFire", "retry"})
       => ( /\ StatusOf(last.id) = "running"
            /\ last.events = <<"pipeline_started">>
            /\ \E r \in BagToSet(runs) :
                 r.id = last.id /\ r.pc = "exec" /\ r.events = <<"pipeline_started">> )
    /\ last.op = "executeDone"
       => \/ /\ last.result = "returned"
             /\ last.events = <<"pipeline_started", "pipeline_completed">>
             /\ obj[last.id][last.gen].status = "completed"
          \/ /\ last.result = "threw"
             /\ last.events = <<"pipeline_started", "pipeline_failed">>
             /\ obj[last.id][last.gen].status = "failed"

\* C7 witness: an executePipeline call has ended by rethrowing
C7_Witness ==
    /\ last.op = "executeDone"
    /\ last.result = "threw"
    /\ last.events = <<"pipeline_started", "pipeline_failed">>

\* C8: for one timer firing, executePipelineWithRetry calls executePipeline at
\* most maxRetries times, stops at the first success, waits
\* min(1000 * 2^attempt, 30000) ms after a failed attempt before the next one,
\* and ends by re-scheduling the pipeline exactly once.
C8_BoundedRetryLoop ==
    LET ClaimedDelay(attempt) ==
            IF attempt = 1 THEN 2000
            ELSE IF attempt = 2 THEN 4000
            ELSE IF attempt = 3 THEN 8000
            ELSE IF attempt = 4 THEN 16000
            ELSE 30000
    IN
    /\ \A r \in BagToSet(runs) :
         r.kind = "timer"
         => /\ r.calls <= MaxRetries(r.id)
            /\ r.pc = "backoff" => (r.attempt = r.calls /\ r.attempt < MaxRetries(r.id))
    /\ TimerRunDone
       => /\ last.calls <= MaxRetries(last.id)
          /\ last.result = "returned"
             => (last.caller = "break" /\ last.rescheduled = 1 /\ last.calls = last.attempt + 1)
          /\ (last.result = "threw" /\ last.attempt < MaxRetries(last.id))
             => /\ last.caller = "backoff"
                /\ last.rescheduled = 0
                /\ last.delayMs = ClaimedDelay(last.attempt)
                /\ \E r \in BagToSet(runs) :
                     /\ r.id = last.id /\ r.pc = "backoff" /\ r.attempt = last.attempt
                     /\ (r.wake - last.at) * 1000 = ClaimedDelay(last.attempt)
          /\ (last.result = "threw" /\ last.attempt >= MaxRetries(last.id))
             => (last.caller = "break" /\ last.rescheduled = 1
                 /\ last.calls = MaxRetries(last.id))

\* C8 witness: a timer-driven run has made maxRetries calls, all failed, and
\* has re-scheduled the pipeline
C8_Witness ==
    /\ RetriesExhausted
    /\ last.calls = MaxRetries(last.id)
    /\ last.rescheduled = 1

\* C9: a failure in a timer-driven run is never rethrown by
\* executePipelineWithRetry: it waits for a retry or, once the retries are
\* exhausted, returns normally.
C9_RetryLoopNeverRethrows ==
    TimerRunDone
    => /\ last.caller \in {"break", "backoff"}
       /\ RetriesExhausted
          => /\ last.caller = "break"
             /\ \A r \in BagToSet(runs) :
                  ~(r.kind = "timer" /\ r.id = last.id /\ r.attempt = last.attempt
                    /\ r.pc = "backoff")

\* C9 witness: every retry of a timer-driven run has failed and the run has
\* returned
C9_Witness ==
    /\ RetriesExhausted
    /\ last.caller = "break"
    /\ StatusOf(last.id) = "failed"

\* C10: a pipeline with a lastUpdate has a nextUpdate strictly later than it.
C10_NextUpdateAfterLastUpdate ==
    \A id \in PipelineIds : \A g \in 1..Len(obj[id]) :
        obj[id][g].lastUpdate # NULL => obj[id][g].nextUpdate > obj[id][g].lastUpdate

\* C10 witness: a biannual and a weekly pipeline have both completed a run
C10_Witness ==
    /\ \E g \in 1..Len(obj["addresses_pipeline"]) :
         /\ obj["addresses_pipeline"][g].frequency = "biannual"
         /\ obj["addresses_pipeline"][g].lastUpdate # NULL
    /\ \E g \in 1..Len(obj["dogPlaces_pipeline"]) :
         /\ obj["dogPlaces_pipeline"][g].frequency = "weekly"
         /\ obj["dogPlaces_pipeline"][g].lastUpdate # NULL

\* The providers executeWithFallback has attempted, in order (each attempt
\* starts with the quota check)
Attempted ==
    LET checks == SelectSeq(fb.log, LAMBDA e : e.ev = "quota_checked")
    IN  [k \in 1..Len(checks) |-> checks[k].source]

\* The source of the pipeline with the given provider
SourceOf(provider) ==
    CHOOSE src \in { pipe.sources[k] : k \in 1..Len(pipe.sources) } : src.provider = provider

\* C11: executeWithFallback attempts only active sources, in ascending
\* priority: no quota check, acquisition or sourcesUsed entry for an inactive
\* source, and every active source of lower priority number than an attempted
\* source was attempted before it.
C11_ActiveSourcesByPriority ==
    /\ \A k \in 1..Len(fb.log) :
         fb.log[k].source # "" => SourceOf(fb.log[k].source).isActive
    /\ \A k \in 1..Len(fb.sourcesUsed) : SourceOf(fb.sourcesUsed[k]).isActive
    /\ \A k \in 1..Len(Attempted) : \A j \in 1..Len(pipe.sources) :
         ( /\ pipe.sources[j].isActive
           /\ pipe.sources[j].priority < SourceOf(Attempted[k]).priority )
         => \E h \in 1..(k - 1) : Attempted[h] = pipe.sources[j].provider
    /\ \A h, k \in 1..Len(Attempted) : h < k => Attempted[h] # Attempted[k]

\* C11 witness: the source of priority 1 is inactive and the two others were
\* attempted against the configured order, the lower priority number first
C11_Witness ==
    /\ pipe.sources[2].priority = 1 /\ ~pipe.sources[2].isActive
    /\ pipe.sources[3].priority = 2 /\ pipe.sources[1].priority = 3
    /\ Attempted = <<pipe.sources[3].provider, pipe.sources[1].provider>>
    /\ fb.sourcesUsed = Attempted

\* C12: a source whose usage is at or above its daily limit fails with
\* QuotaExceededError and its adapter is not called; when it is the only
\* active source, executePipeline fails with that error.
C12_QuotaExceededWithoutAcquisition ==
    /\ \A k \in 1..Len(Attempted) :
         LET src == SourceOf(Attempted[k])
         IN  src.current >= src.daily
             => /\ \A h \in 1..Len(fb.log) :
                     ~(fb.log[h].ev \in {"acquire", "source_connected"}
                       /\ fb.log[h].source = src.provider)
                /\ \E h \in 1..Len(fb.log) :
                     fb.log[h] = Ev("source_failed", src.provider, 0)
                /\ k = Len(Attempted)
                   => fb.lastError = Error("QuotaExceededError", src.provider)
    /\ ( /\ Len(fb.activeSources) = 1
         /\ fb.activeSources[1].current >= fb.activeSources[1].daily
         /\ fb.pc = "done" )
       => /\ fb.outcome = "threw"
          /\ fb.error = Error("QuotaExceededError", fb.activeSources[1].provider)
          /\ fb.status = "failed"

\* C12 witness: the only active source is exactly at its daily limit and the
\* call has ended
C12_Witness ==
    /\ Len(fb.activeSources) = 1
    /\ fb.activeSources[1].current = fb.activeSources[1].daily
    /\ pipe.enableFallback
    /\ fb.pc = "done"

\* C13: with fallback disabled the first source failure is rethrown: no
\* source is attempted after it and nothing is persisted.
C13_NoFallbackRethrowsFirstFailure ==
    ( /\ ~pipe.enableFallback
      /\ \E k \in 1..Len(fb.log) : fb.log[k].ev = "source_failed" )
    => /\ fb.pc = "done"
       /\ fb.outcome = "threw"
       /\ fb.error = fb.lastError
       /\ fb.error.source = Attempted[Len(Attempted)]
       /\ Cardinality({ k \in 1..Len(fb.log) : fb.log[k].ev = "source_failed" }) = 1
       /\ \A k \in 1..Len(fb.log) : fb.log[k].ev \notin {"persist", "data_persisted"}
       /\ fb.persisted = << >>

\* C13 witness: fallback disabled, a first source gave data, the second
\* failed, a third active source was left alone
C13_Witness ==
    /\ ~pipe.enableFallback
    /\ Len(fb.activeSources) = 3
    /\ Len(Attempted) = 2
    /\ Len(fb.sourcesUsed) = 1
    /\ fb.combinedData # << >>
    /\ fb.outcome = "threw"

\* C14 (as claimed): with fallback enabled, every source failure is followed
\* by a wait of that source's configured timeout.
C14_WaitsAfterEveryFailure ==
    pipe.enableFallback
    => \A k \in 1..Len(fb.log) :
         fb.log[k].ev = "source_failed"
         => /\ k < Len(fb.log)
            /\ fb.log[k + 1] = Ev("delay", fb.log[k].source, SourceOf(fb.log[k].source).timeout)

\* C14 (amended): a source that fails with QuotaExceededError is followed by
\* a wait of its configured timeout, 5000 ms when none is configured, before
\* the next source is attempted or the error rethrown; a source that fails
\* with another error is followed by no wait.
C14_WaitsAfterQuotaFailureOnly ==
    \A k \in 1..Len(fb.log) :
      fb.log[k].ev = "source_failed"
      => LET src == SourceOf(fb.log[k].source)
             followedByWait == k < Len(fb.log) /\ fb.log[k + 1].ev = "delay"
         IN  IF src.current >= src.daily
             THEN /\ followedByWait
                  /\ fb.log[k + 1].source = src.provider
                  /\ fb.log[k + 1].n = (IF src.timeout = 0 THEN 5000 ELSE src.timeout)
                  /\ now >= fb.log[k + 1].n
             ELSE ~followedByWait

\* C14 witness: a source out of quota and without configured timeout failed,
\* after a source whose acquisition failed, and another source was attempted
\* after the wait
C14_Witness ==
    /\ pipe.enableFallback
    /\ Len(Attempted) = 3
    /\ SourceOf(Attempted[1]).current < SourceOf(Attempted[1]).daily
    /\ SourceOf(Attempted[2]).current >= SourceOf(Attempted[2]).daily
    /\ SourceOf(Attempted[2]).timeout = 0
    /\ fb.sourcesUsed = <<Attempted[3]>>

\* C15: when every attempted source has failed, so that no data was
\* collected, executeWithFallback rethrows the error of the last source that
\* failed, persists nothing and emits no data_persisted event.
C15_AllSourcesFailedRethrowsLast ==
    ( /\ fb.pc = "done"
      /\ Attempted # << >>
      /\ Cardinality({ k \in 1..Len(fb.log) : fb.log[k].ev = "source_failed" })
           = Len(Attempted) )
    => /\ fb.combinedData = << >>
       /\ fb.outcome = "threw"
       /\ fb.status = "failed"
       /\ fb.error.source = Attempted[Len(Attempted)]
       /\ fb.error.kind =
            (LET src == SourceOf(Attempted[Len(Attempted)])
             IN  IF src.current >= src.daily THEN "QuotaExceededError" ELSE fb.error.kind)
       /\ fb.error.kind \in {"QuotaExceededError", "DataAcquisitionError", "TypeError"}
       /\ \A k \in 1..Len(fb.log) : fb.log[k].ev \notin {"persist", "data_persisted"}
       /\ fb.persisted = << >>

\* C15 witness: with fallback enabled three sources failed one after the
\* other, the first for its quota and the last in its acquisition
C15_Witness ==
    /\ pipe.enableFallback
    /\ Len(Attempted) = 3
    /\ fb.sourcesUsed = << >>
    /\ SourceOf(Attempted[1]).current >= SourceOf(Attempted[1]).daily
    /\ fb.error = Error("DataAcquisitionError", Attempted[3])
    /\ fb.pc = "done"

\* C16: once the accumulated data are not empty and their overall quality
\* score is at least the pipeline's qualityThreshold, no further source is
\* attempted: the loop never stands before a source with such data.
C16_StopsAtQualityThreshold ==
    LET reached ==
          /\ fb.combinedData # << >>
          /\ LET q == CalculateQualityMetrics(fb.combinedData)
             IN  /\ ~q.threw /\ ~q.nan
                 /\ q.overallScore >= ValidationConfig(pipe.type).qualityThreshold
    IN  fb.pc # "none"
        => /\ (fb.pc = "loop" => ~reached)
           /\ (reached /\ Len(fb.sourcesUsed) > 0
               => Attempted[Len(Attempted)] = fb.sourcesUsed[Len(fb.sourcesUsed)])

\* C16 witness: the data of the first source were below the threshold, those
\* of the second raised the score to it, and the third active source was
\* never attempted
C16_Witness ==
    /\ Len(fb.activeSources) = 3
    /\ Len(Attempted) = 2
    /\ Len(fb.sourcesUsed) = 2
    /\ Len(fb.combinedData) > 1
    /\ ~HasMinimumQualityData(SubSeq(fb.combinedData, 1, 1),
                              ValidationConfig(pipe.type).qualityThreshold)
    /\ HasMinimumQualityData(fb.combinedData, ValidationConfig(pipe.type).qualityThreshold)
    /\ fb.outcome = "returned"

\* C17 (as claimed): a pipeline fetch that succeeds leaves exactly one
\* DataVersion in the version store, a fetch that fails leaves none.
C17_OneVersionPerSuccessfulFetch ==
    /\ fb.outcome = "returned" => Len(versions) = 1
    /\ fb.outcome = "threw" => Len(versions) = 0

\* C18 (as claimed): the deduplicated list holds at most one record per
\* placeId and, among the records without placeId, at most one per pair of
\* rounded coordinates (here rounded to three decimals).
C18_OnePerRoundedCoordinates ==
    out.op = "deduplicateData"
    => LET HasPlaceId(r) == r.placeId \notin {Null, ""}
           Rounded(x) == (x + 5) \div 10
       IN  \A i, j \in 1..Len(out.unique) :
             i < j
             => /\ ~(HasPlaceId(out.unique[i]) /\ HasPlaceId(out.unique[j])
                     /\ out.unique[i].placeId = out.unique[j].placeId)
                /\ ~(~HasPlaceId(out.unique[i]) /\ ~HasPlaceId(out.unique[j])
                     /\ Rounded(out.unique[i].location[1]) = Rounded(out.unique[j].location[1])
                     /\ Rounded(out.unique[i].location[2]) = Rounded(out.unique[j].location[2]))

\* C18 (amended): the deduplicated list is the input without every record
\* that has the placeId of an earlier record or, having no placeId, exactly the
\* latitude and longitude of an earlier record without placeId; the other
\* records all survive, in input order.
C18_OnePerKey ==
    out.op = "deduplicateData"
    => LET HasPlaceId(r) == r.placeId \notin {Null, ""}
           SameKey(r1, r2) ==
               \/ HasPlaceId(r1) /\ HasPlaceId(r2) /\ r1.placeId = r2.placeId
               \/ ~HasPlaceId(r1) /\ ~HasPlaceId(r2) /\ r1.location = r2.location
           data == out.data
           first[k \in 0..Len(data)] ==
               IF k = 0 THEN << >>
               ELSE IF \E j \in 1..(k - 1) : SameKey(data[j], data[k])
               THEN first[k - 1]
               ELSE Append(first[k - 1], data[k])
       IN  /\ out.unique = first[Len(data)]
           /\ \A i, j \in 1..Len(out.unique) :
                i < j => ~SameKey(out.unique[i], out.unique[j])

\* C18 witness: of three validated records, two with the same coordinates and
\* no placeId, the first of the two and the third record survive
C18_Witness ==
    /\ out.op = "deduplicateData"
    /\ Len(out.data) = 3
    /\ Len(out.unique) = 2
    /\ \E i, j \in 1..3 :
         /\ i < j
         /\ out.data[i].placeId \in {Null, ""} /\ out.data[j].placeId \in {Null, ""}
         /\ out.data[i].location = out.data[j].location
         /\ out.data[i] # out.data[j]
         /\ out.data[i] = out.unique[1] \/ out.data[i] = out.unique[2]

\* C19: validateData does not throw on a bad record; it returns the records
\* that have every required field, coordinates in range and a location inside
\* the Brussels bounding box, in input order, and drops the others.
C19_ValidateDropsBadRecords ==
    out.op = "validateData"
    => LET Present(r) ==
               /\ r.id # Null
               /\ r.location # NoLocation
               /\ input.type = "addresses" => r.formattedAddress # Null
               /\ input.type = "dogPlaces" => (r.name # Null /\ r.type # Null)
           InRange(r) ==
               /\ r.location[1] >= 0 - 900000 /\ r.location[1] <= 900000
               /\ r.location[2] >= 0 - 1800000 /\ r.location[2] <= 1800000
           InBox(r) ==
               /\ r.location[1] >= 507642 /\ r.location[1] <= 509073
               /\ r.location[2] >= 42423 /\ r.location[2] <= 44812
           Good(r) == Present(r) /\ InRange(r) /\ InBox(r)
       IN  /\ ~out.result.threw
           /\ out.result.data = SelectSeq(input.data, Good)

\* C19 witness: a batch with a record without location, a record outside the
\* bounding box and a good record, of which the good record alone is kept
C19_Witness ==
    /\ out.op = "validateData"
    /\ Len(input.data) = 3
    /\ Len(out.result.data) = 1
    /\ \E k \in 1..3 : input.data[k].location = NoLocation
    /\ \E k \in 1..3 : input.data[k].location = <<507641, 42423>>

\* C20 (as claimed): createVersion gives the same hash to two datasets with
\* identical records and to two datasets that hold the same records in a
\* different order.
C20_HashIgnoresRecordOrder ==
    \A i, j \in 1..Len(out.created) :
        LET d1 == out.created[i].data
            d2 == out.created[j].data
            Count(d, r) == Cardinality({ k \in 1..Len(d) : d[k] = r })
            SameRecords == \A r \in Records : Count(d1, r) = Count(d2, r)
        IN  SameRecords => out.created[i].version.hash = out.created[j].version.hash

\* C21: compareVersions returns needsUpdate = FALSE exactly when current is
\* not null and has the hash of the new version, with reason IDENTICAL_HASH;
\* for a null current it returns TRUE, NO_PREVIOUS_VERSION and recordsAdded =
\* the new record count; for different hashes TRUE and DATA_CHANGED.
C21_CompareVersions ==
    out.op = "compareVersions"
    => LET current == out.current
           new == out.new[1]
           result == out.comparison[1]
           sameHash == current # << >> /\ current[1].hash = new.hash
       IN  /\ result.needsUpdate = ~sameHash
           /\ sameHash => result.reason = "IDENTICAL_HASH"
           /\ current = << >>
              => /\ result.reason = "NO_PREVIOUS_VERSION"
                 /\ result.recordsAdded = new.recordCount
           /\ current # << >> /\ ~sameHash => result.reason = "DATA_CHANGED"

\* C21 witness: a version was compared with a later version of the same two
\* records
C21_Witness ==
    /\ out.op = "compareVersions"
    /\ out.current # << >>
    /\ out.current[1].id # out.new[1].id
    /\ out.current[1].timestamp < out.new[1].timestamp
    /\ out.current[1].hash = out.new[1].hash
    /\ out.new[1].recordCount = 2

\* C22: after cleanupOldVersions(keepCount) the store holds, of each (type,
\* source) pair, the keepCount most recent versions it held before, all of
\* them when there were fewer, and every other version it held is unchanged in
\* place; a call that repeats the call before it removes nothing.
C22_CleanupKeepsMostRecent ==
    out.op = "cleanupOldVersions"
    => LET InGroup(store, v) ==
               { w \in { store[k] : k \in 1..Len(store) } :
                   w.type = v.type /\ w.source = v.source }
           held == { out.before[k] : k \in 1..Len(out.before) }
       IN  /\ versions = SelectSeq(out.before,
                                   LAMBDA v : \E k \in 1..Len(versions) : versions[k] = v)
           /\ \A v \in held :
                LET was == InGroup(out.before, v)
                    kept == InGroup(versions, v)
                IN  /\ kept \subseteq was
                    /\ Cardinality(kept) = Min(out.keepCount, Cardinality(was))
                    /\ \A k \in kept : \A r \in was \ kept : k.timestamp >= r.timestamp
           /\ out.repeated => versions = out.before

\* C22 witness: cleanupOldVersions(1) ran twice in a row on a store of two
\* versions of one pair; the older one is gone, the newer one is still held
C22_Witness ==
    /\ out.op = "cleanupOldVersions"
    /\ out.keepCount = 1
    /\ out.repeated
    /\ Len(out.created) = 2
    /\ out.created[1].version.source = out.created[2].version.source
    /\ out.created[1].version.timestamp < out.created[2].version.timestamp
    /\ versions = <<out.created[2].version>>

\* C23 (as claimed): the next update of a weekly pipeline is the earliest
\* Sunday 02:00 local time strictly after the instant it was computed at (for
\* a pipeline that has run: its lastUpdate), the same day when that instant is
\* a Sunday before 02:00.
C23_WeeklyEarliestSunday ==
    \A id \in PipelineIds : \A g \in 1..Len(obj[id]) :
      LET p == obj[id][g]
          t == p.lastUpdate
          localMidnight == ((t + tzOffset) \div Day) * Day
          sundays == { s \in { (localMidnight + d * Day + 2 * Hour) - tzOffset : d \in 0..7 } :
                         GetDay(s, tzOffset) = 0 /\ s > t }
      IN  (p.frequency = "weekly" /\ t # NULL)
          => /\ p.nextUpdate \in sundays
             /\ \A s \in sundays : p.nextUpdate <= s

\* C24 (as claimed): calculateQualityMetrics returns four scores in 0..100
\* for every dataset, and four zeros for the empty dataset.
C24_ScoresWithinRange ==
    out.op = "calculateQualityMetrics"
    => LET m == out.metrics
       IN  /\ ~m.threw
           /\ ~m.nan
           /\ \A score \in { m.completenessScore, m.accuracyScore,
                             m.freshnessScore, m.overallScore } : score \in 0..100
           /\ out.data = << >>
              => /\ m.completenessScore = 0 /\ m.accuracyScore = 0
                 /\ m.freshnessScore = 0 /\ m.overallScore = 0

\* C25 (as claimed): at most one executePipeline call per pipeline id is in
\* flight at any time.
C25_OneExecutionPerPipeline ==
    \A r1, r2 \in BagToSet(runs) :
      (r1.pc = "exec" /\ r2.pc = "exec" /\ r1.id = r2.id)
      => r1 = r2 /\ CopiesIn(r1, runs) = 1

\* C26 (as claimed): while the scheduler is stopped no timer is armed, and no
\* timer callback or retry loop enters executePipeline.
C26_StoppedSchedulerIsQuiet ==
    [][ ~isRunning'
        => /\ live' = {}
           /\ ~isRunning
              => /\ ~ \E tm \in live : TimerFire(tm)
                 /\ ~ \E r \in BagToSet(runs) : RetryWake(r) ]_vars

\* C27 (as claimed): a call returns successfully only with a source in
\* sourcesUsed, and persistence is invoked only after the acquisition from
\* some source succeeded.
C27_SuccessNeedsUsedSource ==
    /\ fb.outcome = "returned" => fb.sourcesUsed # << >>
    /\ \A k \in 1..Len(fb.log) :
         fb.log[k].ev = "persist"
         => \E h \in 1..(k - 1) : fb.log[h].ev = "validate"

\* C28 (as claimed): recording a failure never increases the reliability
\* score of the source.
C28_FailureNeverRaisesScore ==
    (out.op = "updateSourceReliability" /\ ~out.success)
    => out.reliability.score <= out.before.score

\* C29: every pipeline object has totalRuns = successfulRuns + failedRuns,
\* and the end of an executePipeline call adds exactly one to the totalRuns of
\* the pipeline it ran, no other step changing any totalRuns.
C29_RunsCounted ==
    [][ LET done == \E r \in BagToSet(runs), success \in BOOLEAN : ExecuteDone(r, success)
        IN  \A id \in PipelineIds :
              /\ \A g \in 1..Len(obj'[id]) :
                   obj'[id][g].totalRuns
                     = obj'[id][g].successfulRuns + obj'[id][g].failedRuns
              /\ \A g \in 1..Len(obj[id]) :
                   obj'[id][g].totalRuns
                     = obj[id][g].totalRuns
                       + (IF done /\ last'.id = id /\ last'.gen = g THEN 1 ELSE 0) ]_vars

\* C29 witness: a pipeline has ended one run in failure and one in success
C29_Witness ==
    /\ last.op = "executeDone"
    /\ \E id \in PipelineIds : \E g \in 1..Len(obj[id]) :
         /\ obj[id][g].failedRuns = 1
         /\ obj[id][g].successfulRuns = 1
         /\ obj[id][g].totalRuns = 2

\* C30 (as claimed): without cleanup, the store holds one version per
\* createVersion call, none having replaced another.
C30_EveryVersionKept ==
    ~out.cleaned => Len(versions) = Len(out.created)

====
